---- MODULE Spec2Model ----
(***************************************************************************)
(* The adversarial update protocol of hgan/updates.py: bp_i, bp_v,         *)
(* r1_loss, update_Dv, update_Di, update_G and update_models, statement by *)
(* statement.  Tensors are abstracted to what the protocol decides on:     *)
(* which component's gradients a backward pass reaches, whether a forward  *)
(* graph is still alive, the requires_grad flags, the label buffer, the    *)
(* number of optimizer steps applied to each component.                    *)
(***************************************************************************)
EXTENDS Integers, Sequences, FiniteSets, TLC

\* ------------------------------------------------------------------ bounds
MaxCalls == 2            \* top-level calls made by the training driver
MaxBatch == 2            \* batch sizes 1..MaxBatch
MaxGamma == 1            \* r1_gamma ranges over 0..MaxGamma
MaxQ == 2                \* q_size ranges over 0..MaxQ
MaxWeight == 2           \* cyclic_coord_loss ranges over 0..MaxWeight

\* --------------------------------------------------------------- constants
RealTarget == 9          \* y=0.9, in tenths
FakeTarget == 0          \* y=0

Components == {"dv", "di", "gi", "rnn"}
RnnTypes   == {"gru", "hnn_phase_space", "hnn_simple"}
Outer      == {"idle", "returned", "raised"}

VARIABLES
  pc,        \* position: an Outer value, or the label of the next statement
  mode,      \* the function the driver called ("none" before the first call)
  cfg,       \* keyword arguments of the current call
  ncalls,    \* number of top-level calls made so far
  label,     \* the shared label tensor: its elements (data, in tenths) and
             \* the backprop call that wrote them last (writer)
  last_bp,   \* the most recent backprop call: batch size, target, the label
             \* write its loss was computed against and the one its backward saw
  start,     \* params when the driver made the current call
  grad,      \* component -> set of backward passes accumulated in its .grad
  params,    \* component -> number of optimizer steps that changed it
  entry,     \* params at entry of the running update_* function
  real,      \* real_data: batch size and requires_grad flags
  fake,      \* fake_data: batch size, dlatent key, freed parts of its graph,
             \* number of top-level calls it was passed to
  real_out,  \* forward output of the last real backprop, and its graph
  log,       \* gradient-affecting operations of the current top-level call
  exc,       \* the exception that ended the call, or "none"
  dicts      \* the dictionaries built by the update functions

vars == <<pc, mode, cfg, ncalls, label, last_bp, start, grad, params, entry, real,
          fake, real_out, log, exc, dicts>>

Abs(x) == IF x < 0 THEN -x ELSE x

RECURSIVE SumAbs(_)
SumAbs(sq) == IF sq = <<>> THEN 0 ELSE Abs(Head(sq)) + SumAbs(Tail(sq))

EmptyDict == <<>>
NoDicts == [n \in {"loc", "err_Dv", "mean_Dv", "err_Di", "mean_Di", "err_G", "err", "mean"}
              |-> EmptyDict]
NoOut == [dis |-> "none", score |-> 0, freed |-> TRUE, input |-> "none"]

\* A batch as the data source hands it over: leaf tensors without gradient
\* tracking for real data, the generator's forward graph for fake data.
RealBatches == [B : 1..MaxBatch, videos_rg : {FALSE}, img_rg : {FALSE}]

\* dlatent: one row of Channels derivatives (dqdt, dpdt) per batch element,
\* the time steps of a trajectory folded into one.
Channels == {1, 2}
DValues == {-1, 0, 1}
Dlatents(B) == [1..B -> [Channels -> DValues]]
Ones(B) == [b \in 1..B |-> [c \in Channels |-> 1]]
NoNumber == [call |-> 0, at |-> 0]

\* The batches of the training loop: fake_data carries the dlatent key or
\* not; one trajectory stands for all.
FakeBatches ==
  {[B |-> b, has_dlatent |-> h, dlatent |-> IF h THEN Ones(b) ELSE <<>>, freed |-> {},
    calls |-> 0] : b \in 1..MaxBatch, h \in BOOLEAN}

\* every trajectory, for the generator step taken alone
AllFakeBatches ==
  UNION {{[B |-> b, has_dlatent |-> TRUE, dlatent |-> d, freed |-> {}, calls |-> 0]
            : d \in Dlatents(b)}
         \cup {[B |-> b, has_dlatent |-> FALSE, dlatent |-> <<>>, freed |-> {}, calls |-> 0]}
         : b \in 1..MaxBatch}

Configs == [rnn_type : RnnTypes, r1_gamma : 0..MaxGamma, q_size : {1}, batch_size : {1},
            cyclic_coord_loss : {1}]

\* every q_size, batch_size and cyclic_coord_loss (in tenths), for the
\* generator step taken alone (update_G has no r1_gamma)
AllGConfigs == [rnn_type : RnnTypes, r1_gamma : {0}, q_size : 0..MaxQ,
                batch_size : 1..MaxBatch, cyclic_coord_loss : 0..MaxWeight]

Init ==
  /\ pc = "idle"
  /\ mode = "none"
  /\ cfg = [rnn_type |-> "gru", r1_gamma |-> 0, q_size |-> 1, batch_size |-> 1,
            cyclic_coord_loss |-> 1]
  /\ ncalls = 0
  /\ label = [data |-> <<>>, writer |-> NoNumber]
  /\ last_bp = [B |-> 0, y |-> 0, saved |-> NoNumber, seen |-> NoNumber]
  /\ start = [c \in Components |-> 0]
  /\ grad = [c \in Components |-> {}]
  /\ params = [c \in Components |-> 0]
  /\ entry = [c \in Components |-> 0]
  /\ real \in RealBatches
  /\ fake \in FakeBatches
  /\ real_out = NoOut
  /\ log = <<>>
  /\ exc = "none"
  /\ dicts = NoDicts

\* ------------------------------------------------------------ the tensors
\* inputs of a backprop call: its name, its batch size, and the parts of the
\* generator's forward graph a backward pass through it traverses.
RealVideos == [name |-> "real_videos", B |-> real.B, parts |-> {}]
RealImg    == [name |-> "real_img", B |-> real.B, parts |-> {}]
FakeVideos == [name |-> "fake_videos", B |-> fake.B, parts |-> {"gi", "rnn"}]
FakeImg    == [name |-> "fake_img", B |-> fake.B, parts |-> {"gi", "rnn"}]
Detach(t)  == [t EXCEPT !.parts = {}]

\* the score of a discriminator whose parameters were stepped p times
Score(p, name) == (p + (IF name \in {"real_videos", "real_img"} THEN 6 ELSE 3)) % 10

\* outputs = dis(inputs): the discriminator is an opaque function; its score
\* (in tenths) is some fixed function of its current parameters and of the
\* kind of input.
Forward(dis, inputs) ==
  [dis |-> dis,
   score |-> Score(params[dis], inputs.name),
   freed |-> FALSE,
   input |-> inputs.name]

\* err = criterion(outputs, labelv): the mean over the batch of the distance
\* between the score and the element's target.
Criterion(outputs, labelv) ==
  IF labelv = <<>> THEN 0
  ELSE SumAbs([i \in 1..Len(labelv) |-> outputs.score - labelv[i]]) \div Len(labelv)

\* label.resize_(n): the first elements are kept, new ones hold whatever the
\* memory held (junk)
LabelResize(data, n, junk) == [i \in 1..n |-> IF i <= Len(data) THEN data[i] ELSE junk]
\* fill_ left out after resize_
LabelFill_skipped(data, y) == data
\* .fill_(y)
LabelFill(data, y) == [i \in 1..Len(data) |-> y]
JunkValues == {FakeTarget, RealTarget}

DvPcs == {"Dv_zero", "Dv_rg", "Dv_real", "Dv_r1", "Dv_fake", "Dv_step", "Dv_ret"}
DiPcs == {"Di_zero", "Di_rg", "Di_real", "Di_r1", "Di_fake", "Di_step", "Di_ret"}
GPcs  == {"G_zero_gi", "G_zero_rnn", "G_bpv", "G_bpi", "G_latent", "G_step_gi",
          "G_step_rnn", "G_ret"}

\* The update function whose body is running.
CurFn == IF pc \in DvPcs THEN "update_Dv"
         ELSE IF pc \in DiPcs THEN "update_Di"
         ELSE IF pc \in GPcs THEN "update_G"
         ELSE "none"

\* The pass recorded in a component's gradient: which function ran it, in
\* which top-level call, on which loss.
Pass(kind, y) == [fn |-> CurFn, call |-> ncalls, kind |-> kind, y |-> y]

\* loss.backward(retain_graph=retain): accumulates into the components in
\* sinks and in the traversed parts of the generator graph.  It raises when
\* a traversed part was freed by an earlier pass; the discriminator's own
\* nodes run first, so its gradients may (partial) or may not have been
\* accumulated by then.
Backward(sinks, parts, retain, src, partial) ==
  LET ok == parts \cap fake.freed = {}
      reached == IF ok THEN sinks \cup parts
                 ELSE IF partial THEN sinks ELSE {}
  IN [ok |-> ok,
      grad |-> [c \in Components |-> IF c \in reached THEN grad[c] \cup {src} ELSE grad[c]],
      freed |-> IF ok /\ ~retain THEN fake.freed \cup parts ELSE fake.freed]

\* the number of the backprop call about to run: top-level call, position
BpNumber == [call |-> ncalls, at |-> Len(log) + 1]

\* bp_i evaluating the loss against the label before writing it
bp_i_stale_label(dis_i, inputs, y, retain, partial, junk) ==
  LET labelv == label
      outputs == Forward(dis_i, inputs)
      err == Criterion(outputs, labelv.data)
      written == [data |-> LabelFill(LabelResize(label.data, inputs.B, junk), y),
                  writer |-> BpNumber]
      bw == Backward({dis_i}, inputs.parts, retain, Pass(inputs.name, y), partial)
  IN [label |-> written, err |-> err, ok |-> bw.ok, grad |-> bw.grad,
      freed |-> bw.freed, outputs |-> [outputs EXCEPT !.freed = ~retain],
      last |-> [B |-> inputs.B, y |-> y, saved |-> labelv.writer, seen |-> written.writer]]

\* labelv = Variable(label) shares the storage of label: the backward pass
\* reads the label as it is when it runs.
bp_i(dis_i, inputs, y, retain, partial, junk) ==
  LET written == [data |-> LabelFill(LabelResize(label.data, inputs.B, junk), y),
                  writer |-> BpNumber]
      labelv == written
      outputs == Forward(dis_i, inputs)
      err == Criterion(outputs, labelv.data)
      bw == Backward({dis_i}, inputs.parts, retain, Pass(inputs.name, y), partial)
  IN [label |-> written, err |-> err, ok |-> bw.ok, grad |-> bw.grad,
      freed |-> bw.freed, outputs |-> [outputs EXCEPT !.freed = ~retain],
      last |-> [B |-> inputs.B, y |-> y, saved |-> labelv.writer, seen |-> written.writer]]

\* bp_v writing the label between the loss and its backward pass
bp_v_fill_after_loss(dis_v, inputs, y, retain, partial, junk) ==
  LET labelv == label
      outputs == Forward(dis_v, inputs)
      err == Criterion(outputs, labelv.data)
      written == [data |-> LabelFill(LabelResize(label.data, inputs.B, junk), y),
                  writer |-> BpNumber]
      bw == Backward({dis_v}, inputs.parts, retain, Pass(inputs.name, y), partial)
  IN [label |-> written, err |-> err, ok |-> bw.ok, grad |-> bw.grad,
      freed |-> bw.freed, outputs |-> [outputs EXCEPT !.freed = ~retain],
      last |-> [B |-> inputs.B, y |-> y, saved |-> labelv.writer, seen |-> written.writer]]

bp_v(dis_v, inputs, y, retain, partial, junk) ==
  LET written == [data |-> LabelFill(LabelResize(label.data, inputs.B, junk), y),
                  writer |-> BpNumber]
      labelv == written
      outputs == Forward(dis_v, inputs)
      err == Criterion(outputs, labelv.data)
      bw == Backward({dis_v}, inputs.parts, retain, Pass(inputs.name, y), partial)
  IN [label |-> written, err |-> err, ok |-> bw.ok, grad |-> bw.grad,
      freed |-> bw.freed, outputs |-> [outputs EXCEPT !.freed = ~retain],
      last |-> [B |-> inputs.B, y |-> y, saved |-> labelv.writer, seen |-> written.writer]]

\* grad(real_out.sum(), real_input, create_graph=True) needs gradient
\* tracking on real_input and the forward graph of real_out; the penalty's
\* backward() then accumulates into the discriminator.
r1_loss(r1_gamma, out, input_rg) ==
  IF ~input_rg THEN [ok |-> FALSE, exc |-> "no_requires_grad", grad |-> grad]
  ELSE IF out.freed THEN [ok |-> FALSE, exc |-> "graph_freed", grad |-> grad]
  ELSE [ok |-> TRUE, exc |-> "none",
        grad |-> [grad EXCEPT ![out.dis] = @ \cup {Pass("r1", r1_gamma)}]]

\* optimizer.step(): applies the accumulated gradients of its component.
OptimStep(c) == [params EXCEPT ![c] = IF grad[c] # {} THEN @ + 1 ELSE @]

Entry(op, comp, inputs, y, retain) ==
  [fn |-> CurFn, op |-> op, comp |-> comp, input |-> inputs.name,
   attached |-> inputs.parts # {}, y |-> y, retain |-> retain]
NoInput == [name |-> "-", parts |-> {}]

\* {**a, **b}: the later dictionary wins on a shared key.
Merge(a, b) == b @@ a

\* ------------------------------------------------------------ the driver
FirstPc(fn) == CASE fn = "update_Dv" -> "Dv_zero"
                 [] fn = "update_Di" -> "Di_zero"
                 [] fn = "update_G" -> "G_zero_gi"

\* update_models calling the image-discriminator step first
update_models_order_swapped == <<"update_Di", "update_Dv", "update_G">>

\* update_models calls the three update functions in this order.
update_models_order == <<"update_Dv", "update_Di", "update_G">>

\* where control goes when the update function fn returns
AfterReturn(fn) ==
  IF mode # "update_models" THEN "returned"
  ELSE LET i == CHOOSE k \in 1..3 : update_models_order[k] = fn
       IN IF i < 3 THEN FirstPc(update_models_order[i + 1]) ELSE "merge"

\* The data source produces the next real and fake batches.
NewBatch ==
  /\ pc \in Outer
  /\ real' \in RealBatches
  /\ fake' \in FakeBatches
  /\ UNCHANGED <<start, pc, mode, cfg, ncalls, label, last_bp, grad, params, entry, real_out,
                 log, exc, dicts>>

Call(fn, first) ==
  /\ pc \in Outer
  /\ ncalls < MaxCalls
  /\ cfg' \in Configs
  /\ mode' = fn
  /\ pc' = first
  /\ ncalls' = ncalls + 1
  /\ fake' = [fake EXCEPT !.calls = @ + 1]
  /\ real_out' = NoOut
  /\ log' = <<>>
  /\ exc' = "none"
  /\ dicts' = NoDicts
  /\ start' = params
  /\ UNCHANGED <<label, last_bp, grad, params, entry, real>>

CallUpdateModels == Call("update_models", FirstPc(update_models_order[1]))
CallUpdateDv == Call("update_Dv", FirstPc("update_Dv"))
CallUpdateDi == Call("update_Di", FirstPc("update_Di"))
CallUpdateG == Call("update_G", FirstPc("update_G"))

\* ------------------------------------------------- shared statement shapes
\* the first statement of an update function; entry records the parameters
\* the function started from
ZeroGradStmt(newgrad, comp, nextpc) ==
  /\ grad' = newgrad
  /\ log' = Append(log, Entry("zero_grad", comp, NoInput, 0, FALSE))
  /\ pc' = nextpc
  /\ entry' = params
  /\ UNCHANGED <<start, mode, cfg, ncalls, label, last_bp, params, real, fake, real_out, exc, dicts>>

\* a call of bp_i / bp_v with result r; on success the error (and the mean
\* of the output, when the caller reads it) go to the named locals
BpStmt(r, e, nextpc, keepOut, errName, meanName) ==
  /\ label' = r.label
  /\ last_bp' = r.last
  /\ grad' = r.grad
  /\ fake' = [fake EXCEPT !.freed = r.freed]
  /\ log' = Append(log, e)
  /\ IF r.ok
       THEN /\ pc' = nextpc
            /\ exc' = exc
            /\ real_out' = IF keepOut THEN r.outputs ELSE real_out
            /\ dicts' = [dicts EXCEPT !["loc"] =
                           (IF meanName = "" THEN EmptyDict ELSE meanName :> r.outputs.score)
                           @@ (errName :> r.err) @@ @]
       ELSE /\ pc' = "raised"
            /\ exc' = "graph_freed"
            /\ UNCHANGED <<real_out, dicts>>
  /\ UNCHANGED <<start, mode, cfg, ncalls, params, entry, real>>

\* if r1_gamma != 0: _ = r1_loss(r1_gamma, real_out, real_input)
R1Stmt(enabled, input, input_rg, nextpc) ==
  IF enabled
    THEN LET r == r1_loss(cfg.r1_gamma, real_out, input_rg) IN
         /\ grad' = r.grad
         /\ log' = Append(log, Entry("r1_loss", real_out.dis, input, cfg.r1_gamma, FALSE))
         /\ real_out' = IF r.ok THEN [real_out EXCEPT !.freed = TRUE] ELSE real_out
         /\ pc' = IF r.ok THEN nextpc ELSE "raised"
         /\ exc' = r.exc
         /\ UNCHANGED <<start, mode, cfg, ncalls, label, last_bp, params, entry, real, fake, dicts>>
    ELSE /\ pc' = nextpc
         /\ UNCHANGED <<start, mode, cfg, ncalls, label, last_bp, grad, params, entry, real, fake,
                        real_out, log, exc, dicts>>

StepStmt(comp, nextpc) ==
  /\ params' = OptimStep(comp)
  /\ log' = Append(log, Entry("step", comp, NoInput, 0, FALSE))
  /\ pc' = nextpc
  /\ UNCHANGED <<start, mode, cfg, ncalls, label, last_bp, grad, entry, real, fake, real_out, exc>>

\* return from an update function with the local dictionaries stored
ReturnStmt(fn, newdicts) ==
  /\ dicts' = newdicts
  /\ pc' = AfterReturn(fn)
  /\ UNCHANGED <<start, mode, cfg, ncalls, label, last_bp, grad, params, entry, real, fake, real_out,
                 log, exc>>

Loc(n) == dicts["loc"][n]

\* ------------------------------------------------------------- update_Dv
\* update_Dv without dis_v.zero_grad()
Dv_zero_grad_skipped(g) == g
Dv_zero_grad(g) == [g EXCEPT !["dv"] = {}]
Dv_requires_grad(rnn_type) == IF rnn_type = "gru" THEN FALSE ELSE TRUE
\* the real backprop of update_Dv with the default retain=False
Dv_real_retain_default == FALSE
Dv_real_retain == TRUE
\* the gradient penalty applied whatever r1_gamma is
Dv_r1_always(r1_gamma) == TRUE
Dv_r1_enabled(r1_gamma) == r1_gamma # 0
\* the fake videos passed without .detach()
Dv_fake_input_attached == FakeVideos
Dv_fake_input == Detach(FakeVideos)
Dv_fake_retain == FALSE
\* update_Dv handed the image discriminator's optimizer
Dv_optim_wrong == "di"
Dv_optim == "dv"

Dv_ZeroGrad ==
  /\ pc = "Dv_zero"
  /\ ZeroGradStmt(Dv_zero_grad(grad), "dv", "Dv_rg")

Dv_SetRequiresGrad ==
  /\ pc = "Dv_rg"
  /\ real' = [real EXCEPT !.videos_rg = Dv_requires_grad(cfg.rnn_type)]
  /\ pc' = "Dv_real"
  /\ UNCHANGED <<start, mode, cfg, ncalls, label, last_bp, grad, params, entry, fake, real_out, log,
                 exc, dicts>>

Dv_BpReal ==
  /\ pc = "Dv_real"
  /\ \E partial \in BOOLEAN, junk \in JunkValues :
       BpStmt(bp_v("dv", RealVideos, RealTarget, Dv_real_retain, partial, junk),
              Entry("backprop", "dv", RealVideos, RealTarget, Dv_real_retain),
              "Dv_r1", TRUE, "err_Dv_real", "Dv_real_mean")

Dv_R1 ==
  /\ pc = "Dv_r1"
  /\ R1Stmt(Dv_r1_enabled(cfg.r1_gamma), RealVideos, real.videos_rg, "Dv_fake")

Dv_BpFake ==
  /\ pc = "Dv_fake"
  /\ \E partial \in BOOLEAN, junk \in JunkValues :
       BpStmt(bp_v("dv", Dv_fake_input, FakeTarget, Dv_fake_retain, partial, junk),
              Entry("backprop", "dv", Dv_fake_input, FakeTarget, Dv_fake_retain),
              "Dv_step", FALSE, "err_Dv_fake", "Dv_fake_mean")

Dv_Step ==
  /\ pc = "Dv_step"
  /\ dicts' = [dicts EXCEPT !["loc"] =
                 ("err_Dv" :> (Loc("err_Dv_real") + Loc("err_Dv_fake"))) @@ @]
  /\ StepStmt(Dv_optim, "Dv_ret")

Dv_Return ==
  /\ pc = "Dv_ret"
  /\ ReturnStmt("update_Dv",
       [dicts EXCEPT
          !["err_Dv"] = ("Dv_real" :> Loc("err_Dv_real")) @@ ("Dv_fake" :> Loc("err_Dv_fake"))
                        @@ ("Dv" :> Loc("err_Dv")),
          !["mean_Dv"] = ("Dv_real" :> Loc("Dv_real_mean")) @@ ("Dv_fake" :> Loc("Dv_fake_mean")),
          !["loc"] = EmptyDict])

\* ------------------------------------------------------------- update_Di
Di_zero_grad(g) == [g EXCEPT !["di"] = {}]
\* the image step copying the video step's rule
Di_requires_grad_as_Dv(rnn_type) == IF rnn_type = "gru" THEN FALSE ELSE TRUE
Di_requires_grad(rnn_type) == TRUE
Di_real_retain == TRUE
Di_r1_enabled(r1_gamma) == r1_gamma # 0
Di_fake_input == Detach(FakeImg)
Di_fake_retain == FALSE
Di_optim == "di"

\* the dictionaries of update_Dv copied without renaming the keys
Di_err_dict_Dv_keys ==
  ("Dv_real" :> Loc("err_Di_real")) @@ ("Dv_fake" :> Loc("err_Di_fake")) @@ ("Dv" :> Loc("err_Di"))
\* err_Di = {"Di_real": err_Di_real, "Di_fake": err_Di_fake, "Di": err_Di}
Di_err_dict ==
  ("Di_real" :> Loc("err_Di_real")) @@ ("Di_fake" :> Loc("err_Di_fake")) @@ ("Di" :> Loc("err_Di"))
\* mean_Di = {"Di_real": Di_real_mean, "Di_fake": Di_fake_mean}
Di_mean_dict == ("Di_real" :> Loc("Di_real_mean")) @@ ("Di_fake" :> Loc("Di_fake_mean"))

Di_ZeroGrad ==
  /\ pc = "Di_zero"
  /\ ZeroGradStmt(Di_zero_grad(grad), "di", "Di_rg")

Di_SetRequiresGrad ==
  /\ pc = "Di_rg"
  /\ real' = [real EXCEPT !.img_rg = Di_requires_grad(cfg.rnn_type)]
  /\ pc' = "Di_real"
  /\ UNCHANGED <<start, mode, cfg, ncalls, label, last_bp, grad, params, entry, fake, real_out, log,
                 exc, dicts>>

Di_BpReal ==
  /\ pc = "Di_real"
  /\ \E partial \in BOOLEAN, junk \in JunkValues :
       BpStmt(bp_i("di", RealImg, RealTarget, Di_real_retain, partial, junk),
              Entry("backprop", "di", RealImg, RealTarget, Di_real_retain),
              "Di_r1", TRUE, "err_Di_real", "Di_real_mean")

Di_R1 ==
  /\ pc = "Di_r1"
  /\ R1Stmt(Di_r1_enabled(cfg.r1_gamma), RealImg, real.img_rg, "Di_fake")

Di_BpFake ==
  /\ pc = "Di_fake"
  /\ \E partial \in BOOLEAN, junk \in JunkValues :
       BpStmt(bp_i("di", Di_fake_input, FakeTarget, Di_fake_retain, partial, junk),
              Entry("backprop", "di", Di_fake_input, FakeTarget, Di_fake_retain),
              "Di_step", FALSE, "err_Di_fake", "Di_fake_mean")

Di_Step ==
  /\ pc = "Di_step"
  /\ dicts' = [dicts EXCEPT !["loc"] =
                 ("err_Di" :> (Loc("err_Di_real") + Loc("err_Di_fake"))) @@ @]
  /\ StepStmt(Di_optim, "Di_ret")

Di_Return ==
  /\ pc = "Di_ret"
  /\ ReturnStmt("update_Di",
       [dicts EXCEPT !["err_Di"] = Di_err_dict, !["mean_Di"] = Di_mean_dict,
                     !["loc"] = EmptyDict])

\* -------------------------------------------------------------- update_G
G_zero_grad_gi(g) == [g EXCEPT !["gi"] = {}]
G_zero_grad_rnn(g) == [g EXCEPT !["rnn"] = {}]
\* the video backprop of update_G with the default retain=False
G_bpv_retain_default == FALSE
G_bpv_retain == TRUE
G_bpi_retain(rnn_type) == IF rnn_type = "hnn_phase_space" THEN TRUE ELSE FALSE
\* the physics term applied to every variant but the recurrent one
G_has_latent_not_gru(rnn_type) == rnn_type # "gru"
G_has_latent(rnn_type) == rnn_type = "hnn_phase_space"
\* update_G handed the image discriminator's optimizer
G_optim_Gi_wrong == "di"
G_optim_Gi == "gi"
\* update_G stepping the generator/decoder optimizer a second time
G_optim_RNN_as_Gi == "gi"
G_optim_RNN == "rnn"

\* update_G stepping its optimizers before the physics term
G_next_steps_first(p) ==
  CASE p = "G_zero_gi" -> "G_zero_rnn"
    [] p = "G_zero_rnn" -> "G_bpv"
    [] p = "G_bpv" -> "G_bpi"
    [] p = "G_bpi" -> "G_step_gi"
    [] p = "G_step_gi" -> "G_step_rnn"
    [] p = "G_step_rnn" -> "G_latent"
    [] p = "G_latent" -> "G_ret"

\* the statement of update_G that follows the one at p
G_next(p) ==
  CASE p = "G_zero_gi" -> "G_zero_rnn"
    [] p = "G_zero_rnn" -> "G_bpv"
    [] p = "G_bpv" -> "G_bpi"
    [] p = "G_bpi" -> "G_latent"
    [] p = "G_latent" -> "G_step_gi"
    [] p = "G_step_gi" -> "G_step_rnn"
    [] p = "G_step_rnn" -> "G_ret"

G_ZeroGradGi ==
  /\ pc = "G_zero_gi"
  /\ ZeroGradStmt(G_zero_grad_gi(grad), "gi", G_next("G_zero_gi"))

G_ZeroGradRnn ==
  /\ pc = "G_zero_rnn"
  /\ grad' = G_zero_grad_rnn(grad)
  /\ log' = Append(log, Entry("zero_grad", "rnn", NoInput, 0, FALSE))
  /\ pc' = G_next("G_zero_rnn")
  /\ UNCHANGED <<start, mode, cfg, ncalls, label, last_bp, params, entry, real, fake, real_out, exc,
                 dicts>>

G_BpV ==
  /\ pc = "G_bpv"
  /\ \E partial \in BOOLEAN, junk \in JunkValues :
       BpStmt(bp_v("dv", FakeVideos, RealTarget, G_bpv_retain, partial, junk),
              Entry("backprop", "dv", FakeVideos, RealTarget, G_bpv_retain),
              G_next("G_bpv"), FALSE, "err_Gv", "")

G_BpI ==
  /\ pc = "G_bpi"
  /\ \E partial \in BOOLEAN, junk \in JunkValues :
       BpStmt(bp_i("di", FakeImg, RealTarget, G_bpi_retain(cfg.rnn_type), partial, junk),
              Entry("backprop", "di", FakeImg, RealTarget, G_bpi_retain(cfg.rnn_type)),
              G_next("G_bpi"), FALSE, "err_Gi", "")

\* dlatent = fake_data["dlatent"]
Dlatent == [name |-> "dlatent", B |-> fake.B, parts |-> {"rnn"}]

\* the slice taken on the side of the cyclic derivatives, dlatent[:, :, :q_size]
Dpdt_cyclic_side(dlatent, q_size) ==
  [b \in DOMAIN dlatent |->
     [c \in {k \in DOMAIN dlatent[b] : k <= q_size} |-> dlatent[b][c]]]

\* dpdt = dlatent[:, :, q_size:]
Dpdt(dlatent, q_size) ==
  [b \in DOMAIN dlatent |->
     [c \in {k \in DOMAIN dlatent[b] : k > q_size} |-> dlatent[b][c]]]

RECURSIVE SumAbsOver(_, _)
SumAbsOver(f, D) ==
  IF D = {} THEN 0
  ELSE LET x == CHOOSE d \in D : TRUE IN Abs(f[x]) + SumAbsOver(f, D \ {x})

\* torch.sum(torch.abs(dpdt))
SumAbsAll(m) ==
  SumAbsOver([b \in DOMAIN m |-> SumAbsOver(m[b], DOMAIN m[b])], DOMAIN m)

\* torch.sum(torch.abs(dpdt)) / batch_size * cyclic_coord_loss, as the
\* fraction num / den
LatentLoss(dpdt, batch_size, cyclic_coord_loss) ==
  [num |-> SumAbsAll(dpdt) * cyclic_coord_loss, den |-> batch_size]

G_Latent ==
  /\ pc = "G_latent"
  /\ IF ~G_has_latent(cfg.rnn_type)
       THEN /\ pc' = G_next("G_latent")
            /\ UNCHANGED <<grad, fake, log, exc, dicts>>
       ELSE IF ~fake.has_dlatent
         THEN /\ pc' = "raised"
              /\ exc' = "KeyError"
              /\ UNCHANGED <<grad, fake, log, dicts>>
         ELSE LET dpdt == Dpdt(fake.dlatent, cfg.q_size)
                  latent_loss == LatentLoss(dpdt, cfg.batch_size, cfg.cyclic_coord_loss)
                  bw == Backward({}, Dlatent.parts, FALSE, Pass("latent_loss", 0), FALSE)
              IN
              /\ dicts' = [dicts EXCEPT !["loc"] = ("latent_loss" :> latent_loss) @@ @]
              /\ grad' = bw.grad
              /\ fake' = [fake EXCEPT !.freed = bw.freed]
              /\ log' = Append(log, Entry("latent_backward", "rnn", Dlatent, 0, FALSE))
              /\ pc' = IF bw.ok THEN G_next("G_latent") ELSE "raised"
              /\ exc' = IF bw.ok THEN exc ELSE "graph_freed"
  /\ UNCHANGED <<start, mode, cfg, ncalls, label, last_bp, params, entry, real, real_out>>

G_StepGi ==
  /\ pc = "G_step_gi"
  /\ StepStmt(G_optim_Gi, G_next("G_step_gi"))
  /\ UNCHANGED dicts

G_StepRnn ==
  /\ pc = "G_step_rnn"
  /\ StepStmt(G_optim_RNN, G_next("G_step_rnn"))
  /\ UNCHANGED dicts

G_Return ==
  /\ pc = "G_ret"
  /\ ReturnStmt("update_G",
       [dicts EXCEPT !["err_G"] = ("Gv" :> Loc("err_Gv")) @@ ("Gi" :> Loc("err_Gi")),
                     !["loc"] = EmptyDict])

\* --------------------------------------------------------- update_models
\* err = {**err_Dv, **err_Di, **err_G}; mean = {**mean_Dv, **mean_Di}
update_models_Return ==
  /\ pc = "merge"
  /\ dicts' = [dicts EXCEPT
                 !["err"] = Merge(Merge(dicts["err_Dv"], dicts["err_Di"]), dicts["err_G"]),
                 !["mean"] = Merge(dicts["mean_Dv"], dicts["mean_Di"])]
  /\ pc' = "returned"
  /\ UNCHANGED <<start, mode, cfg, ncalls, label, last_bp, grad, params, entry, real, fake, real_out,
                 log, exc>>

Next ==
  \/ NewBatch
  \/ CallUpdateModels
  \/ CallUpdateDv
  \/ CallUpdateDi
  \/ CallUpdateG
  \/ Dv_ZeroGrad
  \/ Dv_SetRequiresGrad
  \/ Dv_BpReal
  \/ Dv_R1
  \/ Dv_BpFake
  \/ Dv_Step
  \/ Dv_Return
  \/ Di_ZeroGrad
  \/ Di_SetRequiresGrad
  \/ Di_BpReal
  \/ Di_R1
  \/ Di_BpFake
  \/ Di_Step
  \/ Di_Return
  \/ G_ZeroGradGi
  \/ G_ZeroGradRnn
  \/ G_BpV
  \/ G_BpI
  \/ G_Latent
  \/ G_StepGi
  \/ G_StepRnn
  \/ G_Return
  \/ update_models_Return

Spec == Init /\ [][Next]_vars

\* update_G alone, as the first call of the driver, on every trajectory and
\* every q_size, batch_size and cyclic_coord_loss (update_G takes no
\* real_data)
InitG ==
  /\ pc = "G_zero_gi"
  /\ mode = "update_G"
  /\ cfg \in AllGConfigs
  /\ ncalls = 1
  /\ label = [data |-> <<>>, writer |-> NoNumber]
  /\ last_bp = [B |-> 0, y |-> 0, saved |-> NoNumber, seen |-> NoNumber]
  /\ start = [c \in Components |-> 0]
  /\ grad = [c \in Components |-> {}]
  /\ params = [c \in Components |-> 0]
  /\ entry = [c \in Components |-> 0]
  /\ real = [B |-> 1, videos_rg |-> FALSE, img_rg |-> FALSE]
  /\ \E f \in AllFakeBatches : fake = [f EXCEPT !.calls = 1]
  /\ real_out = NoOut
  /\ log = <<>>
  /\ exc = "none"
  /\ dicts = NoDicts

NextG ==
  \/ G_ZeroGradGi
  \/ G_ZeroGradRnn
  \/ G_BpV
  \/ G_BpI
  \/ G_Latent
  \/ G_StepGi
  \/ G_StepRnn
  \/ G_Return

SpecG == InitG /\ [][NextG]_vars

\* ================================================================ claims
DvLog == SelectSeq(log, LAMBDA e : e.fn = "update_Dv")
DiLog == SelectSeq(log, LAMBDA e : e.fn = "update_Di")
GLog  == SelectSeq(log, LAMBDA e : e.fn = "update_G")
IsPrefix(a, b) == Len(a) <= Len(b) /\ a = SubSeq(b, 1, Len(a))
BackwardOps == {"backprop", "r1_loss", "latent_backward"}

\* an update function has returned normally in the current top-level call
DvDone == dicts["err_Dv"] # EmptyDict
DiDone == dicts["err_Di"] # EmptyDict
GDone  == dicts["err_G"] # EmptyDict

Rank(fn) == CASE fn = "update_Dv" -> 1 [] fn = "update_Di" -> 2 [] fn = "update_G" -> 3

StepOf(fn, comp) ==
  [fn |-> fn, op |-> "step", comp |-> comp, input |-> "-", attached |-> FALSE,
   y |-> 0, retain |-> FALSE]
ZeroOf(fn, comp) ==
  [fn |-> fn, op |-> "zero_grad", comp |-> comp, input |-> "-", attached |-> FALSE,
   y |-> 0, retain |-> FALSE]

\* C1: in every update_models call the operations of the three steps are
\* never interleaved or reordered: video discriminator, then image
\* discriminator, then generator; the operation just before the image
\* discriminator step's first one is the video discriminator's optimizer
\* step, and the one just before the generator step's first is the image
\* discriminator's optimizer step.
C1_FixedOrder ==
  mode = "update_models" =>
    /\ \A i \in 1..Len(log) :
         /\ i > 1 => Rank(log[i - 1].fn) <= Rank(log[i].fn)
         /\ (log[i].fn = "update_Di" /\ (i = 1 \/ log[i - 1].fn # "update_Di"))
              => (i > 1 /\ log[i - 1] = StepOf("update_Dv", "dv"))
         /\ (log[i].fn = "update_G" /\ (i = 1 \/ log[i - 1].fn # "update_G"))
              => (i > 1 /\ log[i - 1] = StepOf("update_Di", "di"))
    /\ pc \in DiPcs => (DvDone /\ Len(log) > 0 /\ log[Len(DvLog)] = StepOf("update_Dv", "dv"))
    /\ pc \in GPcs => (DvDone /\ DiDone)
    /\ pc \in DvPcs => (DiLog = <<>> /\ GLog = <<>>)

C1_Witness ==
  /\ mode = "update_models"
  /\ pc = "returned"
  /\ DvLog # <<>> /\ DiLog # <<>> /\ GLog # <<>>
  /\ cfg.rnn_type = "hnn_phase_space"
  /\ cfg.r1_gamma # 0

OwnStep(c) == IF c = "dv" THEN "update_Dv" ELSE IF c = "di" THEN "update_Di" ELSE "update_G"

\* the transition is an optimizer step of component c
Stepped(c) ==
  /\ Len(log') = Len(log) + 1
  /\ log'[Len(log')].op = "step"
  /\ log'[Len(log')].comp = c

\* C2: whenever an optimizer is stepped, every pass accumulated in its
\* component's gradients was made by the component's own update step in
\* the current call, and exactly one zero-grad of the component was made
\* in the call, before all backward passes of that update step.
C2_OwnGradients ==
  [][\A c \in Components : Stepped(c) =>
       /\ grad[c] # {}
       /\ \A s \in grad[c] : s.fn = OwnStep(c) /\ s.call = ncalls
       /\ \E z \in 1..Len(log) :
            /\ log[z] = ZeroOf(OwnStep(c), c)
            /\ \A j \in 1..Len(log) :
                 /\ (log[j].op = "zero_grad" /\ log[j].comp = c) => j = z
                 /\ (log[j].op \in BackwardOps /\ log[j].fn = OwnStep(c)) => z < j
    ]_vars

\* the second call steps the video discriminator after the previous call's
\* generator step left its passes in the discriminators' gradients
C2_Witness ==
  /\ ncalls = 2
  /\ pc = "Dv_ret"
  /\ grad["dv"] # {}
  /\ \E s \in grad["di"] : s.fn = "update_G" /\ s.call = 1

DvSeq(r1_gamma) ==
  <<ZeroOf("update_Dv", "dv"),
    [fn |-> "update_Dv", op |-> "backprop", comp |-> "dv", input |-> "real_videos",
     attached |-> FALSE, y |-> 9, retain |-> TRUE]>>
  \o (IF r1_gamma # 0
        THEN <<[fn |-> "update_Dv", op |-> "r1_loss", comp |-> "dv", input |-> "real_videos",
                attached |-> FALSE, y |-> r1_gamma, retain |-> FALSE]>>
        ELSE <<>>)
  \o <<[fn |-> "update_Dv", op |-> "backprop", comp |-> "dv", input |-> "fake_videos",
        attached |-> FALSE, y |-> 0, retain |-> FALSE],
       StepOf("update_Dv", "dv")>>

\* C3: the operations update_Dv has performed are always an initial part
\* of: zero-grad of dv, real videos at 0.9 retained, the gradient penalty
\* on the real videos iff r1_gamma != 0, detached fake videos at 0 not
\* retained, optimizer step of dv; when update_Dv returns it has performed
\* all of them, the optimizer step last.
C3_DvSequence ==
  /\ IsPrefix(DvLog, DvSeq(cfg.r1_gamma))
  /\ DvDone => DvLog = DvSeq(cfg.r1_gamma)
  /\ pc = "Dv_ret" => DvLog[Len(DvLog)] = StepOf("update_Dv", "dv")

C3_Witness ==
  /\ DvDone
  /\ cfg.r1_gamma # 0
  /\ Len(DvLog) = 5

\* the video step's operation read as the image step's
Ren(e) ==
  [e EXCEPT !.fn = "update_Di", !.comp = "di",
            !.input = IF @ = "real_videos" THEN "real_img"
                      ELSE IF @ = "fake_videos" THEN "fake_img" ELSE @]
DiSeq(r1_gamma) == [i \in 1..Len(DvSeq(r1_gamma)) |-> Ren(DvSeq(r1_gamma)[i])]

\* C4: update_Di performs the operation sequence of update_Dv on the image
\* discriminator and the img tensors (always an initial part of it, all of
\* it when it returns; equal, operation by operation, to what update_Dv
\* did in the same call when both returned), and from its real backprop
\* on the real images track gradients, whatever rnn_type is.
C4_DiLikeDv ==
  /\ IsPrefix(DiLog, DiSeq(cfg.r1_gamma))
  /\ DiDone => DiLog = DiSeq(cfg.r1_gamma)
  /\ (DvDone /\ DiDone) => DiLog = [i \in 1..Len(DvLog) |-> Ren(DvLog[i])]
  /\ pc \in {"Di_real", "Di_r1", "Di_fake", "Di_step", "Di_ret"} => real.img_rg

\* update_Di has applied the penalty and returned under the recurrent variant
C4_Witness ==
  /\ DiDone
  /\ cfg.rnn_type = "gru"
  /\ cfg.r1_gamma # 0
  /\ Len(DiLog) = 5

\* C5: no statement of update_Dv or update_Di changes the accumulated
\* gradients of the image generator or of the latent-dynamics model.
C5_NoGeneratorGrad ==
  [][(pc \in (DvPcs \cup DiPcs)) =>
       (grad'["gi"] = grad["gi"] /\ grad'["rnn"] = grad["rnn"])
    ]_vars

\* a standalone update_Dv has backpropagated the fake videos while the
\* generator holds gradients of an earlier update_G
C5_Witness ==
  /\ mode = "update_Dv"
  /\ pc = "Dv_step"
  /\ fake.freed = {}
  /\ grad["gi"] # {}
  /\ grad["rnn"] # {}

AfterG == pc = "G_ret" \/ (GDone /\ pc \in {"merge", "returned"})

\* C6: when update_G has returned, both discriminators have the parameters
\* they had when it started although its backward passes are in their
\* gradients, and exactly the generator/decoder and the dynamics-model
\* optimizers were stepped.
C6_GFrame ==
  AfterG =>
    /\ params["dv"] = entry["dv"]
    /\ params["di"] = entry["di"]
    /\ \E s \in grad["dv"] : s.fn = "update_G" /\ s.call = ncalls
    /\ \E s \in grad["di"] : s.fn = "update_G" /\ s.call = ncalls
    /\ params["gi"] = entry["gi"] + 1
    /\ params["rnn"] = entry["rnn"] + 1
    /\ {GLog[i].comp : i \in {j \in 1..Len(GLog) : GLog[j].op = "step"}} = {"gi", "rnn"}

C6_Witness ==
  /\ mode = "update_models"
  /\ pc = "merge"
  /\ cfg.rnn_type = "hnn_phase_space"
  /\ entry["dv"] > 0

AfterDv ==
  \/ pc = "Dv_ret"
  \/ (mode = "update_Dv" /\ pc = "returned")
  \/ (mode = "update_models" /\ pc = "Di_zero")

\* C7: when update_Dv has returned, the video discriminator's parameters
\* have been changed by one optimizer step and the image discriminator,
\* the image generator and the dynamics model have the parameters they
\* had when it started.
C7_DvFrame ==
  AfterDv =>
    /\ params["dv"] = entry["dv"] + 1
    /\ \A c \in {"di", "gi", "rnn"} : params[c] = entry[c]

C7_Witness ==
  /\ mode = "update_models"
  /\ pc = "Di_zero"
  /\ entry["gi"] > 0
  /\ grad["di"] # {}

\* C8: whenever an update step invokes the gradient penalty, the real input
\* it passes has gradient tracking enabled.
C8_R1Precondition ==
  /\ (pc = "Dv_r1" /\ Dv_r1_enabled(cfg.r1_gamma)) => real.videos_rg
  /\ (pc = "Di_r1" /\ Di_r1_enabled(cfg.r1_gamma)) => real.img_rg

RealBp(fn, comp, input) ==
  [fn |-> fn, op |-> "backprop", comp |-> comp, input |-> input, attached |-> FALSE,
   y |-> 9, retain |-> TRUE]
FakeBp(fn, comp, input) ==
  [fn |-> fn, op |-> "backprop", comp |-> comp, input |-> input, attached |-> FALSE,
   y |-> 0, retain |-> FALSE]

\* C9: with r1_gamma = 0 no gradient penalty is invoked and no penalty pass
\* enters a discriminator's gradients; the backward passes of a
\* discriminator step that returned are the real and the fake backprop.
C9_NoPenaltyAtZero ==
  cfg.r1_gamma = 0 =>
    /\ \A i \in 1..Len(log) : log[i].op # "r1_loss"
    /\ \A c \in {"dv", "di"} : \A s \in grad[c] : s.call = ncalls => s.kind # "r1"
    /\ DvDone => SelectSeq(DvLog, LAMBDA e : e.op \in BackwardOps)
                   = <<RealBp("update_Dv", "dv", "real_videos"),
                       FakeBp("update_Dv", "dv", "fake_videos")>>
    /\ DiDone => SelectSeq(DiLog, LAMBDA e : e.op \in BackwardOps)
                   = <<RealBp("update_Di", "di", "real_img"),
                       FakeBp("update_Di", "di", "fake_img")>>

C9_Witness ==
  /\ cfg.r1_gamma = 0
  /\ cfg.rnn_type # "gru"
  /\ DvDone
  /\ DiDone

\* C10: in an update_models call on a fake batch no earlier call received,
\* with rnn_type gru or hnn_phase_space, no backward pass meets a freed
\* graph: a pass through the generator's graph that is followed by another
\* one retains it, and the penalty follows a real backprop that retained.
C10_NoFreedGraph ==
  (mode = "update_models" /\ fake.calls = 1 /\ cfg.rnn_type \in {"gru", "hnn_phase_space"}) =>
    /\ exc # "graph_freed"
    /\ \A i, j \in 1..Len(log) :
         (i < j /\ log[i].attached /\ log[j].attached) => log[i].retain
    /\ \A i \in 1..Len(log) :
         log[i].op = "r1_loss" => (i > 1 /\ log[i - 1].op = "backprop" /\ log[i - 1].retain)

C10_Witness ==
  /\ mode = "update_models"
  /\ fake.calls = 1
  /\ pc = "returned"
  /\ cfg.rnn_type = "hnn_phase_space"
  /\ cfg.r1_gamma # 0
  /\ Len(GLog) = 7

\* C11: after any sequence of backprop calls the label tensor has exactly as
\* many elements as the batch of the most recent call, and every element is
\* that call's target: nothing of an earlier call (or of the memory a
\* growing resize_ exposes) is left.
C11_LabelOverwritten ==
  last_bp.B > 0 =>
    /\ Len(label.data) = last_bp.B
    /\ \A i \in 1..Len(label.data) : label.data[i] = last_bp.y

\* in one update_models call the fake backprop of update_Dv shrank the label
\* to one element and the real backprop of update_Di has grown it again
C11_Witness ==
  /\ mode = "update_models"
  /\ pc = "Di_r1"
  /\ fake.B = 1
  /\ real.B = MaxBatch
  /\ last_bp.B = MaxBatch
  /\ last_bp.y = RealTarget
  /\ label.data = [i \in 1..MaxBatch |-> RealTarget]

\* C12: whenever update_models completes, the error dictionary has exactly
\* the keys Dv_real, Dv_fake, Dv, Di_real, Di_fake, Di, Gv, Gi and the mean
\* dictionary exactly Dv_real, Dv_fake, Di_real, Di_fake; the dictionaries
\* of the three steps share no key, so every entry of a step is in the merge
\* unchanged, and Dv = Dv_real + Dv_fake, Di = Di_real + Di_fake.
Disjoint(a, b) == DOMAIN a \cap DOMAIN b = {}
Within(a, whole) == \A k \in DOMAIN a : k \in DOMAIN whole /\ whole[k] = a[k]
C12_MergedKeys ==
  (mode = "update_models" /\ pc = "returned") =>
    /\ DOMAIN dicts["err"] = {"Dv_real", "Dv_fake", "Dv", "Di_real", "Di_fake", "Di", "Gv", "Gi"}
    /\ DOMAIN dicts["mean"] = {"Dv_real", "Dv_fake", "Di_real", "Di_fake"}
    /\ Disjoint(dicts["err_Dv"], dicts["err_Di"])
    /\ Disjoint(dicts["err_Dv"], dicts["err_G"])
    /\ Disjoint(dicts["err_Di"], dicts["err_G"])
    /\ Disjoint(dicts["mean_Dv"], dicts["mean_Di"])
    /\ \A d \in {"err_Dv", "err_Di", "err_G"} : Within(dicts[d], dicts["err"])
    /\ \A d \in {"mean_Dv", "mean_Di"} : Within(dicts[d], dicts["mean"])
    /\ dicts["err"]["Dv"] = dicts["err"]["Dv_real"] + dicts["err"]["Dv_fake"]
    /\ dicts["err"]["Di"] = dicts["err"]["Di_real"] + dicts["err"]["Di_fake"]

\* a second update_models call has completed with the phase-space variant
\* and differing errors of the two discriminators on real data
C12_Witness ==
  /\ mode = "update_models"
  /\ pc = "returned"
  /\ ncalls = 2
  /\ cfg.rnn_type = "hnn_phase_space"
  /\ dicts["err"]["Dv_real"] # dicts["err"]["Di_real"]
  /\ dicts["err"]["Dv_fake"] > 0

\* C13: when update_G raises in an update_models call whose two discriminator
\* steps returned, the call ends with that exception after a single attempt
\* and returns nothing; both discriminator optimizers have stepped, neither
\* the generator/decoder nor the dynamics-model optimizer has, and their
\* parameters are those of the start of the call.
Count(sq, e) == Cardinality({i \in 1..Len(sq) : sq[i] = e})
C13_GeneratorFailure ==
  (mode = "update_models" /\ pc = "raised" /\ DvDone /\ DiDone) =>
    /\ exc # "none"
    /\ dicts["err"] = EmptyDict /\ dicts["mean"] = EmptyDict /\ ~GDone
    /\ Count(log, ZeroOf("update_G", "gi")) = 1
    /\ Count(log, StepOf("update_Dv", "dv")) = 1
    /\ Count(log, StepOf("update_Di", "di")) = 1
    /\ params["dv"] = start["dv"] + 1
    /\ params["di"] = start["di"] + 1
    /\ \A i \in 1..Len(log) : log[i].op = "step" => log[i].comp \in {"dv", "di"}
    /\ params["gi"] = start["gi"]
    /\ params["rnn"] = start["rnn"]

\* the phase-space variant on a fake batch without dlatent
C13_Witness ==
  /\ mode = "update_models"
  /\ pc = "raised"
  /\ exc = "KeyError"
  /\ cfg.rnn_type = "hnn_phase_space"
  /\ ~fake.has_dlatent
  /\ DvDone
  /\ DiDone
  /\ params["dv"] = start["dv"] + 1
  /\ Len(GLog) = 4

\* the physics term has been computed in the running update_G
LatentDone == pc \in {"G_step_gi", "G_step_rnn"} /\ "latent_loss" \in DOMAIN dicts["loc"]

\* C14: with the phase-space variant the penalty is the mean over the batch
\* dimension of the trajectory of the summed absolute non-cyclic derivatives
\* (channels from q_size on), times cyclic_coord_loss, for every dlatent,
\* q_size and batch_size: num / den = (sum / B) * weight, cross-multiplied.
C14_PenaltyIsBatchMean ==
  LatentDone =>
    LET loss == Loc("latent_loss")
        total == SumAbsAll([b \in 1..fake.B |->
                   [c \in {k \in Channels : k > cfg.q_size} |-> fake.dlatent[b][c]]])
    IN loss.num * fake.B = total * cfg.cyclic_coord_loss * loss.den

\* the error of one backprop call as a function of the discriminator's
\* parameters, the kind of input and the target alone
ErrOf(p, name, y) == Abs(Score(p, name) - y)

\* C15: the error dictionary update_models returns is a function of the
\* component parameters at the start of the call and of the batches alone:
\* two calls that agree on them return the same dictionary, whatever size
\* and contents the shared label had before the call.
C15_Deterministic ==
  (mode = "update_models" /\ pc = "returned") =>
    LET dv_real == ErrOf(start["dv"], "real_videos", RealTarget)
        dv_fake == ErrOf(start["dv"], "fake_videos", FakeTarget)
        di_real == ErrOf(start["di"], "real_img", RealTarget)
        di_fake == ErrOf(start["di"], "fake_img", FakeTarget)
    IN dicts["err"] =
         [k \in {"Dv_real", "Dv_fake", "Dv", "Di_real", "Di_fake", "Di", "Gv", "Gi"} |->
            CASE k = "Dv_real" -> dv_real
              [] k = "Dv_fake" -> dv_fake
              [] k = "Dv" -> dv_real + dv_fake
              [] k = "Di_real" -> di_real
              [] k = "Di_fake" -> di_fake
              [] k = "Di" -> di_real + di_fake
              [] k = "Gv" -> ErrOf(start["dv"] + 1, "fake_videos", RealTarget)
              [] k = "Gi" -> ErrOf(start["di"] + 1, "fake_img", RealTarget)]

\* a call that found the discriminators as the first call of a run finds
\* them, but the label as an earlier update_G call left it
C15_Witness ==
  /\ mode = "update_models"
  /\ pc = "returned"
  /\ ncalls = 2
  /\ start["dv"] = 0
  /\ start["di"] = 0
  /\ start["gi"] = 1
  /\ real.B # fake.B

\* the image backprop of update_G, and the backward passes of update_G
GBpI == {i \in 1..Len(GLog) : GLog[i].op = "backprop" /\ GLog[i].input = "fake_img"}
GBackward == {i \in 1..Len(GLog) : GLog[i].op \in BackwardOps}
GLatent == {i \in 1..Len(GLog) : GLog[i].op = "latent_backward"}
\* update_G is past its backward passes
GStepping == pc \in {"G_step_gi", "G_step_rnn", "G_ret"} \/ AfterG

\* C16: in update_G the image backprop retains the graph exactly when
\* rnn_type is "hnn_phase_space"; the physics backward pass runs only after
\* an image backprop that retained, and in every update_G that gets to its
\* optimizer steps it has run exactly when the image backprop retained; for
\* the recurrent variant the image backprop is the last backward pass.
C16_RetainIffLatent ==
  /\ \A i \in GBpI : GLog[i].retain <=> (cfg.rnn_type = "hnn_phase_space")
  /\ \A j \in GLatent : \E i \in GBpI : i < j /\ GLog[i].retain
  /\ GStepping =>
       /\ Cardinality(GBpI) = 1
       /\ \A i \in GBpI : GLog[i].retain <=> (GLatent # {})
       /\ cfg.rnn_type = "gru" => \A i \in GBpI : \A j \in GBackward : j <= i

\* the phase-space variant in an update_models call: the image backprop of
\* update_G retained and the physics pass has run
C16_Witness ==
  /\ mode = "update_models"
  /\ pc = "G_step_gi"
  /\ cfg.rnn_type = "hnn_phase_space"
  /\ GLatent # {}
  /\ \E i \in GBpI : GLog[i].retain

\* every non-cyclic derivative (channel above q_size) of dlatent is zero
NonCyclicZero ==
  \A b \in 1..fake.B : \A c \in Channels : c > cfg.q_size => fake.dlatent[b][c] = 0

\* C17: with the phase-space variant, when every non-cyclic derivative of
\* dlatent is zero the penalty is exactly 0, for every cyclic_coord_loss and
\* batch_size > 0 and whatever the cyclic derivatives (the first q_size
\* channels) are.
C17_ZeroPenalty ==
  (LatentDone /\ NonCyclicZero) =>
    /\ Loc("latent_loss").num = 0
    /\ Loc("latent_loss").den > 0

\* non-zero cyclic derivatives in every row, a positive weight
C17_Witness ==
  /\ LatentDone
  /\ NonCyclicZero
  /\ cfg.rnn_type = "hnn_phase_space"
  /\ cfg.q_size = 1
  /\ cfg.cyclic_coord_loss = MaxWeight
  /\ cfg.batch_size = MaxBatch
  /\ fake.B = MaxBatch
  /\ \A b \in 1..fake.B : fake.dlatent[b][1] # 0
  /\ Loc("latent_loss").num = 0

\* the components stepped in the current call, in order
Steps == LET st == SelectSeq(log, LAMBDA e : e.op = "step")
         IN [i \in 1..Len(st) |-> st[i].comp]

\* C18: in every update_models call that completes, each of the four
\* optimizers is stepped exactly once, in the order video discriminator,
\* image discriminator, generator/decoder, dynamics model, and no backward
\* pass of update_G (adversarial or physics) comes after one of its steps.
C18_FourSteps ==
  /\ (mode = "update_models" /\ pc \in {"merge", "returned"}) =>
       /\ Steps = <<"dv", "di", "gi", "rnn">>
       /\ \A c \in Components : params[c] = start[c] + 1
  /\ \A i, j \in 1..Len(GLog) :
       (GLog[i].op = "step" /\ i < j) => GLog[j].op \notin BackwardOps

\* a completed call of the phase-space variant, physics pass included
C18_Witness ==
  /\ mode = "update_models"
  /\ pc = "returned"
  /\ cfg.rnn_type = "hnn_phase_space"
  /\ Cardinality(GBackward) = 3
  /\ Steps = <<"dv", "di", "gi", "rnn">>
  /\ params["rnn"] = start["rnn"] + 1

\* C19: the backward pass of every backprop call reads the label as the same
\* call wrote it before computing the loss (never a later write), and no
\* other statement, in particular no backward pass over a retained graph
\* (the gradient penalty, the physics term), writes the label in between.
C19_LabelNotOverwrittenEarly ==
  last_bp.B > 0 =>
    /\ last_bp.saved = last_bp.seen
    /\ last_bp.saved # NoNumber
    /\ label.writer = last_bp.seen

\* the second call of a run: the physics pass of update_G has run over the
\* graph its image backprop retained, after real and fake backprops on
\* batches of different sizes
C19_Witness ==
  /\ mode = "update_models"
  /\ ncalls = 2
  /\ pc = "G_step_gi"
  /\ GLatent # {}
  /\ real.B # fake.B
  /\ last_bp.saved.call = 2
  /\ last_bp.saved = last_bp.seen
  /\ last_bp.B = fake.B

\* C20: the steps agree on the variant for every rnn_type: in an
\* update_models call whose update_G is past its backward passes, update_Dv
\* enabled gradient tracking on the real videos exactly when update_G
\* retained the graph on its image backprop and applied the physics term.
C20_VariantAgreement ==
  (mode = "update_models" /\ pc = "G_step_gi") =>
    /\ real.videos_rg <=> (\E i \in GBpI : GLog[i].retain)
    /\ real.videos_rg <=> (GLatent # {})

\* a backward pass has met a freed graph (a batch passed to a second call)
StaleBatchRaises == exc = "graph_freed"

====
